---- MODULE Spec2Model ----
(***************************************************************************)
(* The before-model callback of the fitness coach agent                    *)
(* (fitness_manager_agent/callbacks.py, modify_image_data_in_history) and  *)
(* the image-id sanitiser of its tools (fitness_manager_agent/tools.py,    *)
(* sanitize_image_id).                                                     *)
(*                                                                         *)
(* A Python str is a sequence of one-character strings; a Python bytes     *)
(* value is a sequence of byte values; an Optional value is None (the      *)
(* empty tuple) or Some(v) (the one-element tuple holding v).              *)
(***************************************************************************)
EXTENDS Integers, Sequences, FiniteSets, TLC

VARIABLES
    contents,            \* llm_request.contents, rewritten in place by the callback
    log,                 \* the turns as they were appended, never rewritten
    before,              \* llm_request.contents as the last callback run received it
    user_message_count,  \* the callback's counter when the last run ended
    raised,              \* the exception the last run ended with, or "none"
    processed,           \* indexes of the turns a run has visited to completion
    runs,                \* callback runs since the last turn was appended, counted to 2
    image_id,            \* the argument of the last sanitize_image_id call
    sanitized            \* its outcome: [value, raised]

vars == <<contents, log, before, user_message_count, raised, processed, runs,
          image_id, sanitized>>

(***************************************************************************)
(* Bounds of the model.                                                    *)
(***************************************************************************)
MaxTurns == 4

(***************************************************************************)
(* Python values.                                                          *)
(***************************************************************************)
None == <<>>

Some(x) == <<x>>

\* str.startswith(prefix)
startswith(s, prefix) ==
    /\ Len(s) >= Len(prefix)
    /\ SubSeq(s, 1, Len(prefix)) = prefix

\* The index of the first occurrence of sep in s at or after position i, 0 if none.
RECURSIVE find(_, _, _)
find(s, sep, i) ==
    IF i + Len(sep) - 1 > Len(s) THEN 0
    ELSE IF SubSeq(s, i, i + Len(sep) - 1) = sep THEN i
    ELSE find(s, sep, i + 1)

\* str.split(sep): the pieces of s between the occurrences of sep.
RECURSIVE split(_, _)
split(s, sep) ==
    LET at == find(s, sep, 1) IN
    IF at = 0 THEN <<s>>
    ELSE <<SubSeq(s, 1, at - 1)>> \o split(SubSeq(s, at + Len(sep), Len(s)), sep)

Whitespace == {" ", "\t", "\n", "\r"}

RECURSIVE lstrip(_)
lstrip(s) ==
    IF s # <<>> /\ Head(s) \in Whitespace THEN lstrip(Tail(s)) ELSE s

RECURSIVE rstrip(_)
rstrip(s) ==
    IF s # <<>> /\ s[Len(s)] \in Whitespace THEN rstrip(SubSeq(s, 1, Len(s) - 1)) ELSE s

\* str.strip()
strip(s) == rstrip(lstrip(s))

(***************************************************************************)
(* google.genai types.Part and types.Content, as the callback reads them.  *)
(***************************************************************************)
\* types.Part(text=s)
TextPart(s) ==
    [text |-> Some(s), inline_data |-> None, function_response |-> None]

\* types.Part(inline_data=types.Blob(data=data)); data is Some(bytes) or None
BlobPart(data) ==
    [text |-> None, inline_data |-> Some([data |-> data]), function_response |-> None]

\* a part carrying a tool's result
FunctionResponsePart ==
    [text |-> None, inline_data |-> None, function_response |-> Some("response")]

Content(role, parts) == [role |-> role, parts |-> parts]

(***************************************************************************)
(* hashlib.sha256(image_data).hexdigest() for the payloads of the model:   *)
(* the digests of the one-byte payloads b"\x01", b"\x02" and b"\x03".      *)
(***************************************************************************)
hexdigest(image_data) ==
    CASE image_data = <<1>> ->
           <<"4","b","f","5","1","2","2","f","3","4","4","5","5","4","c","5",
             "3","b","d","e","2","e","b","b","8","c","d","2","b","7","e","3",
             "d","1","6","0","0","a","d","6","3","1","c","3","8","5","a","5",
             "d","7","c","c","e","2","3","c","7","7","8","5","4","5","9","a">>
      [] image_data = <<2>> ->
           <<"d","b","c","1","b","4","c","9","0","0","f","f","e","4","8","d",
             "5","7","5","b","5","d","a","5","c","6","3","8","0","4","0","1",
             "2","5","f","6","5","d","b","0","f","e","3","e","2","4","4","9",
             "4","b","7","6","e","a","9","8","6","4","5","7","d","9","8","6">>
      [] image_data = <<3>> ->
           <<"0","8","4","f","e","d","0","8","b","9","7","8","a","f","4","d",
             "7","d","1","9","6","a","7","4","4","6","a","8","6","b","5","8",
             "0","0","9","e","6","3","6","b","6","1","1","d","b","1","6","2",
             "1","1","b","6","5","a","9","a","a","d","f","f","2","9","c","5">>

\* hasher.hexdigest()[:12]
image_hash_id(image_data) ==
    LET h == hexdigest(image_data) IN
    SubSeq(h, 1, IF Len(h) < 12 THEN Len(h) ELSE 12)

\* f"[IMAGE-ID {image_hash_id}]"
placeholder(hash_id) ==
    <<"[","I","M","A","G","E","-","I","D"," ">> \o hash_id \o <<"]">>

(***************************************************************************)
(* modify_image_data_in_history                                            *)
(***************************************************************************)
\* the test of line 23: a manual user query, not a function call response
IsUserQueryRoleOnly(content) ==
    content.role = "user"

IsUserQuery(content) ==
    /\ content.role = "user"
    /\ content.parts[1].function_response = None

\* line 24: user_message_count += 1, for the manual user query being visited
CountsTurnsWithImages(count, content) ==
    IF \E k \in 1..Len(content.parts) : content.parts[k].inline_data # None
    THEN count + 1 ELSE count

incremented(count, content) ==
    count + 1

\* lines 35-39
AlwaysMissing(parts, idx) ==
    TRUE

is_placeholder_missing(parts, idx) ==
    \/ idx + 1 > Len(parts)
    \/ parts[idx + 1].text = None
    \/ ~ startswith(parts[idx + 1].text[1], <<"[","I","M","A","G","E","-","I","D"," ">>)

\* lines 49 and 57: only keep image data in the last 3 user messages
KeepsLastTwo(count) ==
    count < 3

keeps_image_data(count) ==
    count <= 3

\* the loop over content.parts, lines 28-59, from part idx on; sha256 raises
\* TypeError on a payload that is None
RECURSIVE parts_loop(_, _, _, _)
parts_loop(parts, idx, count, modified_content_parts) ==
    IF idx > Len(parts)
    THEN [parts |-> modified_content_parts, raised |-> "none"]
    ELSE
      LET part == parts[idx]
          kept == IF keeps_image_data(count)
                  THEN Append(modified_content_parts, part)
                  ELSE modified_content_parts
      IN
      IF part.inline_data = None
      THEN parts_loop(parts, idx + 1, count, Append(modified_content_parts, part))
      ELSE IF is_placeholder_missing(parts, idx)
      THEN IF part.inline_data[1].data = None
           THEN [parts |-> parts, raised |-> "TypeError"]
           ELSE parts_loop(parts, idx + 1, count,
                  Append(kept,
                    TextPart(placeholder(image_hash_id(part.inline_data[1].data[1])))))
      ELSE parts_loop(parts, idx + 1, count, kept)

\* the loop over reversed(llm_request.contents), lines 18-62, from turn i down;
\* content.parts[0] raises IndexError on a user turn without parts. An exception
\* leaves the turn it was raised in, and the turns not yet visited, as they were.
RECURSIVE contents_loop(_, _, _)
contents_loop(cs, i, count) ==
    IF i = 0
    THEN [contents |-> cs, user_message_count |-> count, raised |-> "none", stopped |-> 0]
    ELSE
      LET content == cs[i] IN
      IF content.role = "user" /\ Len(content.parts) = 0
      THEN [contents |-> cs, user_message_count |-> count,
            raised |-> "IndexError", stopped |-> i]
      ELSE IF IsUserQuery(content)
      THEN LET user_count == incremented(count, content)
               r == parts_loop(content.parts, 1, user_count, <<>>)
           IN
           IF r.raised # "none"
           THEN [contents |-> cs, user_message_count |-> user_count,
                 raised |-> r.raised, stopped |-> i]
           ELSE contents_loop([cs EXCEPT ![i].parts = r.parts], i - 1, user_count)
      ELSE contents_loop(cs, i - 1, count)

modify_image_data_in_history(cs) == contents_loop(cs, Len(cs), 0)

(***************************************************************************)
(* sanitize_image_id, tools.py lines 48-52; [1] raises IndexError when the *)
(* split yields one piece.                                                 *)
(***************************************************************************)
sanitize_image_id(id) ==
    IF startswith(id, <<"[","I","M","A","G","E","-">>)
    THEN LET pieces == split(id, <<"I","D"," ">>) IN
         IF Len(pieces) < 2
         THEN [value |-> <<>>, raised |-> "IndexError"]
         ELSE [value |-> strip(split(pieces[2], <<"]">>)[1]), raised |-> "none"]
    ELSE [value |-> strip(id), raised |-> "none"]

(***************************************************************************)
(* The turns a conversation is made of.                                    *)
(***************************************************************************)
ImageA == BlobPart(Some(<<1>>))

ImageB == BlobPart(Some(<<2>>))

Hi == TextPart(<<"h","i">>)

\* a user's text that quotes the id of an earlier image
QuotedId == TextPart(placeholder(image_hash_id(<<1>>)) \o <<" ","?">>)

WellFormedTurns ==
    { Content("user", <<Hi>>),
      Content("user", <<Hi, ImageA>>),
      Content("user", <<ImageB, Hi>>),
      Content("user", <<ImageA, ImageB>>),
      Content("user", <<ImageB, QuotedId>>),
      Content("user", <<FunctionResponsePart, ImageA>>),
      Content("model", <<Hi, ImageA>>) }

MalformedTurns ==
    { Content("user", <<>>),
      Content("user", <<BlobPart(None)>>) }

(***************************************************************************)
(* The state machine.                                                      *)
(***************************************************************************)
Init ==
    /\ contents = <<>>
    /\ log = <<>>
    /\ before = <<>>
    /\ user_message_count = 0
    /\ raised = "none"
    /\ processed = {}
    /\ runs = 0
    /\ image_id = <<>>
    /\ sanitized = [value |-> <<>>, raised |-> "none"]

\* a turn is added to the session and to the request built from it
AppendTurn(turn) ==
    /\ Len(contents) < MaxTurns
    /\ contents' = Append(contents, turn)
    /\ log' = Append(log, turn)
    /\ before' = <<>>
    /\ user_message_count' = 0
    /\ raised' = "none"
    /\ runs' = 0
    /\ UNCHANGED <<processed, image_id, sanitized>>

\* before_model_callback=modify_image_data_in_history: one run of the callback
BeforeModelCallback ==
    /\ Len(contents) > 0
    /\ LET r == modify_image_data_in_history(contents) IN
       /\ contents' = r.contents
       /\ user_message_count' = r.user_message_count
       /\ raised' = r.raised
       /\ processed' = processed \cup ((r.stopped + 1) .. Len(contents))
    /\ before' = contents
    /\ runs' = IF runs < 2 THEN runs + 1 ELSE 2
    /\ UNCHANGED <<log, image_id, sanitized>>

Next ==
    \/ \E turn \in WellFormedTurns : AppendTurn(turn)
    \/ BeforeModelCallback

Spec == Init /\ [][Next]_vars

NextMalformed ==
    \/ \E turn \in WellFormedTurns \cup MalformedTurns : AppendTurn(turn)
    \/ BeforeModelCallback

SpecMalformed == Init /\ [][NextMalformed]_vars

(***************************************************************************)
(* The tools' use of sanitize_image_id: log_meal_data and                  *)
(* analyze_form_and_store pass it the image_id argument the model gave.    *)
(***************************************************************************)
Payloads == {<<1>>, <<2>>, <<3>>}

Leading == {<<>>, <<" ">>, <<"\n">>, <<" ", " ">>}

Trailing == {<<>>, <<" ">>, <<"\n">>}

\* what the model may write for the image with id h: the bare id, the
\* placeholder as the callback wrote it, or a bracketed form of its own
Writings(h) ==
    { h,
      placeholder(h),
      <<"[","I","M","A","G","E","-">> \o h \o <<"]">> }

ImageIdArguments ==
    { l \o w \o t : l \in Leading, t \in Trailing,
                    w \in UNION { Writings(image_hash_id(d)) : d \in Payloads } }

SanitizeCall(id) ==
    /\ image_id' = id
    /\ sanitized' = sanitize_image_id(id)
    /\ UNCHANGED <<contents, log, before, user_message_count, raised, processed, runs>>

NextSanitize ==
    \E id \in ImageIdArguments : SanitizeCall(id)

SpecSanitize == Init /\ [][NextSanitize]_vars

(***************************************************************************)
(* Vocabulary of the properties.                                           *)
(***************************************************************************)
\* a countable user turn: role "user", first part not a function response
Countable(c) ==
    /\ c.role = "user"
    /\ Len(c.parts) > 0
    /\ c.parts[1].function_response = None

\* a turn that is not countable: another role, or a function response first
NonCountable(c) ==
    \/ c.role # "user"
    \/ Len(c.parts) > 0 /\ c.parts[1].function_response # None

CountableTurns(h) == { i \in 1..Len(h) : Countable(h[i]) }

\* the countable user turns that come after turn i
CountableAfter(h, i) == Cardinality({ j \in CountableTurns(h) : j > i })

IsInline(part) == part.inline_data # None

IsImage(part) == part.inline_data # None /\ part.inline_data[1].data # None

NotInline(part) == part.inline_data = None

\* the inline binary parts of a turn, in order
Inlines(c) == SelectSeq(c.parts, IsInline)

Min(a, b) == IF a < b THEN a ELSE b

\* the text part [IMAGE-ID <12 hex chars>] that names the image with these bytes
PlaceholderOf(bytes) ==
    TextPart(<<"[","I","M","A","G","E","-","I","D"," ">>
             \o SubSeq(hexdigest(bytes), 1, 12) \o <<"]">>)

\* a turn's parts with every image followed by exactly one placeholder of its
\* own, the image itself kept or not; a placeholder of its own that already
\* follows an image is the one
RECURSIVE WithPlaceholders(_, _, _)
WithPlaceholders(parts, idx, keep) ==
    IF idx > Len(parts) THEN <<>>
    ELSE IF ~ IsImage(parts[idx])
    THEN <<parts[idx]>> \o WithPlaceholders(parts, idx + 1, keep)
    ELSE
      LET own == PlaceholderOf(parts[idx].inline_data[1].data[1])
          has == idx < Len(parts) /\ parts[idx + 1] = own
      IN (IF keep THEN <<parts[idx]>> ELSE <<>>) \o <<own>>
           \o WithPlaceholders(parts, IF has THEN idx + 2 ELSE idx + 1, keep)

\* a history without its turn j
Without(h, j) == SubSeq(h, 1, j - 1) \o SubSeq(h, j + 1, Len(h))

\* the callback has run on `before` and returned
Returned == runs >= 1 /\ raised = "none"

(***************************************************************************)
(* C1. Retention boundary: in a history whose K countable user turns each  *)
(* hold exactly one image, after a run exactly min(K,3) of them still hold *)
(* their image, these are the min(K,3) most recent ones, and every earlier *)
(* one holds only the image's placeholder in the image's place.            *)
(***************************************************************************)
C1_RetentionBoundary ==
    (/\ Returned
     /\ \A i \in CountableTurns(before) :
           /\ Len(Inlines(before[i])) = 1
           /\ IsImage(Inlines(before[i])[1]))
    =>
    LET K == Cardinality(CountableTurns(before))
        retained == { i \in CountableTurns(before) : Inlines(contents[i]) # <<>> }
    IN /\ Cardinality(retained) = Min(K, 3)
       /\ retained = { i \in CountableTurns(before) : CountableAfter(before, i) <= 2 }
       /\ \A i \in retained : Inlines(contents[i]) = Inlines(before[i])
       /\ \A i \in CountableTurns(before) \ retained :
             contents[i].parts = WithPlaceholders(before[i].parts, 1, FALSE)

(***************************************************************************)
(* C2. Idempotence: a second run in succession on the same history leaves  *)
(* every turn's parts as the first run left them.                          *)
(***************************************************************************)
C2_Idempotent ==
    runs = 2 => contents = before

\* a second run in succession over turns that hold images, kept and dropped
C2_Witness ==
    /\ runs = 2
    /\ raised = "none"
    /\ \E i \in CountableTurns(log) :
          Inlines(log[i]) # <<>> /\ Inlines(contents[i]) = <<>>
    /\ \E i \in CountableTurns(log) :
          Inlines(contents[i]) # <<>> /\ contents[i] # log[i]

(***************************************************************************)
(* C3. Placeholder invariant: after a run returns, every image of a        *)
(* countable user turn has exactly one placeholder [IMAGE-ID <12 hex>] of  *)
(* its own bytes right after it, or in its place when its bytes were       *)
(* dropped, whatever the other parts of the turn are.                      *)
(***************************************************************************)
C3_PlaceholderInvariant ==
    Returned =>
      \A i \in CountableTurns(before) :
         \E keep \in BOOLEAN :
            contents[i].parts = WithPlaceholders(before[i].parts, 1, keep)

(***************************************************************************)
(* C4. Non-countable turns are untouched: a run leaves the parts of every  *)
(* turn that is not a countable user turn as they were, inline binaries    *)
(* included, and such a turn does not increment the counter.               *)
(***************************************************************************)
C4_NonCountableUntouched ==
    runs >= 1 =>
      /\ \A i \in 1..Len(before) :
            NonCountable(before[i]) => contents[i] = before[i]
      /\ raised = "none" =>
            user_message_count = Cardinality(CountableTurns(before))

\* a function-response user turn holding an image, three countable turns after it
C4_Witness ==
    /\ Returned
    /\ \E i \in 1..Len(before) :
          /\ before[i].role = "user"
          /\ NonCountable(before[i])
          /\ Inlines(before[i]) # <<>>
          /\ CountableAfter(before, i) >= 3
          /\ contents[i] = before[i]

(***************************************************************************)
(* C5. Totality on malformed input: a run never ends in an error; a user   *)
(* turn without parts passes through, and an inline part without payload   *)
(* is handled as a non-binary part.                                        *)
(***************************************************************************)
C5_Total ==
    runs >= 1 =>
      /\ raised = "none"
      /\ \A i \in 1..Len(before) :
            before[i].parts = <<>> => contents[i] = before[i]

(***************************************************************************)
(* C6. Scenario C, as claimed: a countable user turn without images passes *)
(* through unchanged, and which other turns keep their image bytes is the  *)
(* same with or without that turn in the history.                          *)
(***************************************************************************)
C6_ImageFreeTurnNoEffect ==
    Returned =>
      \A j \in CountableTurns(before) :
         Inlines(before[j]) = <<>> =>
           /\ contents[j] = before[j]
           /\ LET alone == modify_image_data_in_history(Without(before, j)).contents
                  rest == Without(contents, j)
              IN \A i \in 1..Len(rest) : Inlines(rest[i]) = Inlines(alone[i])

(***************************************************************************)
(* C6, amended. A countable user turn without images passes through        *)
(* unchanged and takes one of the 3 places: the turns after it keep their  *)
(* image bytes as they would without it, and a countable turn before it    *)
(* keeps its image bytes exactly when at most one other countable user     *)
(* turn comes after that turn.                                             *)
(***************************************************************************)
C6_ImageFreeTurnCounts ==
    Returned =>
      \A j \in CountableTurns(before) :
         Inlines(before[j]) = <<>> =>
           /\ contents[j] = before[j]
           /\ LET without == Without(before, j)
                  alone == modify_image_data_in_history(without).contents
              IN /\ \A i \in (j + 1)..Len(before) :
                       Inlines(contents[i]) = Inlines(alone[i - 1])
                 /\ \A i \in CountableTurns(before) :
                       i < j =>
                         Inlines(contents[i]) =
                           IF CountableAfter(without, i) <= 1
                           THEN Inlines(before[i]) ELSE <<>>

\* an image-free turn that pushed an older turn's image out
C6_Witness ==
    /\ Returned
    /\ \E j \in CountableTurns(before) :
          /\ Inlines(before[j]) = <<>>
          /\ \E i \in CountableTurns(before) :
                /\ i < j
                /\ Inlines(before[i]) # <<>>
                /\ Inlines(contents[i]) = <<>>
                /\ CountableAfter(Without(before, j), i) = 2

(***************************************************************************)
(* C7. sanitize_image_id returns the bare 12-character id for the id h     *)
(* and for the placeholder [IMAGE-ID h], also with whitespace around the   *)
(* argument, and fails on no argument that begins with [IMAGE-.            *)
(***************************************************************************)
C7_SanitizeRoundTrip ==
    /\ \A d \in Payloads :
          LET h == SubSeq(hexdigest(d), 1, 12) IN
          strip(image_id) \in {h, PlaceholderOf(d).text[1]} =>
             sanitized = [value |-> h, raised |-> "none"]
    /\ startswith(image_id, <<"[","I","M","A","G","E","-">>) =>
          sanitized.raised = "none"

(***************************************************************************)
(* C8. Retention is by turn recency: every countable user turn increments  *)
(* the counter, with or without an image; an inline image of a countable   *)
(* user turn is retained exactly when at most 2 countable user turns come  *)
(* after its turn; so at most 3 countable user turns hold inline binaries  *)
(* after a run.                                                            *)
(***************************************************************************)
C8_RetentionByTurnRecency ==
    Returned =>
      /\ user_message_count = Cardinality(CountableTurns(before))
      /\ \A i \in CountableTurns(before) :
            Inlines(contents[i]) =
              IF CountableAfter(before, i) <= 2 THEN Inlines(before[i]) ELSE <<>>
      /\ Cardinality({ i \in CountableTurns(before) : Inlines(contents[i]) # <<>> }) <= 3

\* no countable turn holds an image after the run, though an older one did
C8_Witness ==
    /\ Returned
    /\ \E i \in CountableTurns(before) : Inlines(before[i]) # <<>>
    /\ \A i \in CountableTurns(before) : Inlines(contents[i]) = <<>>

(***************************************************************************)
(* C9. Placeholder stability: a later run changes a countable turn that a  *)
(* run has already processed only by removing its image bytes, and only    *)
(* when at least 3 countable user turns come after it; its other parts,    *)
(* the placeholders among them, stay as they are and where they are, and   *)
(* no dropped image comes back.                                            *)
(***************************************************************************)
C9_PlaceholderStable ==
    [][runs' >= 1 =>
         \A i \in processed :
            Countable(contents[i]) =>
              \/ contents'[i] = contents[i]
              \/ /\ CountableAfter(contents, i) >= 3
                 /\ contents'[i].parts = SelectSeq(contents[i].parts, NotInline)]_vars

\* a turn that an earlier run gave its placeholder, whose image this run dropped
C9_Witness ==
    /\ Returned
    /\ \E i \in CountableTurns(before) :
          /\ before[i] # log[i]
          /\ Inlines(before[i]) # <<>>
          /\ Inlines(contents[i]) = <<>>
          /\ contents[i].parts = SelectSeq(before[i].parts, NotInline)

(***************************************************************************)
(* C10. In-place and fresh runs agree: the history that the runs have      *)
(* rewritten in place as the turns were appended equals the result of one  *)
(* run on a never-processed copy of the whole log.                         *)
(***************************************************************************)
C10_InPlaceEqualsFresh ==
    Returned => contents = modify_image_data_in_history(log).contents

\* a run over a history that earlier runs had rewritten, with a dropped image
C10_Witness ==
    /\ Returned
    /\ before # log
    /\ \E i \in CountableTurns(log) :
          Inlines(log[i]) # <<>> /\ Inlines(contents[i]) = <<>>

====
